---- MODULE Spec2Model ----
\* Verification model of the interaction layer of rod: the Mouse pointer
\* controller (src/mouse.go) and the Element facade (src/unnamed/part_000).
EXTENDS Integers, Sequences, FiniteSets, TLC

\* ------------------------------------------------------------------ bounds

\* Number of goroutines sharing one Mouse.
NumProcs == 2
\* x coordinates range over 0..MaxX, y coordinates over 0..MaxY.
MaxX == 2
MaxY == 1
\* The steps argument of MoveE ranges over 0..MaxSteps (0 stands for steps < 1).
MaxSteps == 2
\* Total number of Mouse calls started in one run.
MaxCalls == 3
\* int64 scaled down: the integers of the model are MinInt..MaxInt and
\* arithmetic wraps around modulo their number, as Go's int64 does modulo 2^64.
MaxInt == 3
\* window.scrollX and window.scrollY range over 0..MaxScroll.
MaxScroll == 1
\* Number of shape samples one WaitStable takes before the run is cut off.
MaxSamples == 3
\* Evaluations of one Wait are counted up to MaxEvals.
MaxEvals == 3
\* Operations on a handle other than Remove, in one run.
MaxOps == 3
MinInt == -MaxInt - 1
Modulus == MaxInt - MinInt + 1
IntRange == MinInt..MaxInt

Procs == 1..NumProcs
XCoords == 0..MaxX
YCoords == 0..MaxY
StepArgs == 0..MaxSteps
Buttons == {"left", "right"}
ClickCounts == {1, 2}

\* ------------------------------------------------------------ mouse state

VARIABLES
  x,        \* Mouse.x
  y,        \* Mouse.y
  buttons,  \* Mouse.buttons, in press order
  lock,     \* Mouse.Mutex: 0 when free, else the goroutine holding it
  pc,       \* position of each goroutine inside its current Mouse call
  fr,       \* locals of each goroutine's current Mouse call
  ret,      \* the return of MoveE, DownE or UpE the last step made (NoReturn: none)
  wire,     \* the event the last step got accepted by Input.dispatchMouseEvent (NoEvent: none)
  lastMove, \* coordinates of the last accepted mouseMoved event, <<>> if none
  lastBtn,  \* pressed sequence encoded in the last accepted press / release event
  calls     \* number of Mouse calls started so far

mouseVars == <<x, y, buttons, lock, pc, fr, ret, wire, lastMove, lastBtn, calls>>

\* ---------------------------------------------------------- element state

VARIABLES
  ipc,      \* position inside Element.Interactable
  ishape,   \* its result shape
  iscroll,  \* its local scroll
  ielAt,    \* its local elAtPoint
  ierr,     \* its result err
  ilog,     \* the calls it has issued, in order, with argument and result
  wpc,      \* position inside Element.WaitStable
  wshape,   \* its local shape: the previous sample
  wcur,     \* its local current: the sample just fetched
  wret,     \* what it returned
  canceled, \* el.ctx is done
  tick,     \* the ticker's channel holds a tick
  nSamples, \* number of shape samples WaitStable has taken
  nTicks,   \* number of ticks its select has received
  eqSeen,   \* the sample just fetched was the same as the one before it
  early,    \* the scope was canceled while WaitStable waited in its select
  failed    \* the call of WaitStable that failed, if one did

interVars == <<ipc, ishape, iscroll, ielAt, ierr, ilog>>
stableVars == <<wpc, wshape, wcur, wret, canceled, tick, nSamples, nTicks, eqSeen, early, failed>>

VARIABLES
  tpc,      \* position inside Element.Wait
  tjs,      \* the predicate Wait evaluates: "visible", "invisible" or "custom"
  shown,    \* whether the element is visible in the page right now
  tret,     \* what Wait returned
  nEvals,   \* number of evaluations Wait has made, counted up to MaxEvals
  lastEval  \* the answer of the most recent evaluation

waitVars == <<tpc, tjs, shown, tret, nEvals, lastEval>>

VARIABLES
  rpc,       \* position inside Element.Remove
  rret,      \* what Remove returned
  rlog,      \* the calls the current Remove has issued, in order
  attached,  \* the node is in the document
  released,  \* the remote side has reclaimed the object reference
  removedOk, \* a Remove has returned success
  lastOp,    \* the last other operation on the handle and its outcome
  nOps       \* number of other operations on the handle, up to MaxOps

removeVars == <<rpc, rret, rlog, attached, released, removedOk, lastOp, nOps>>

VARIABLES
  fpc,     \* position inside Element.ensureParentPage
  ftree,   \* the iframes of each page, in document order
  fres,    \* the frames in which nodeID resolves to an object
  fpage,   \* el.page: 0 is the page the handle was made on
  fobj,    \* el.ObjectID
  fstack,  \* the calls of walk in progress, innermost last
  fret,    \* what ensureParentPage returned
  flog,    \* the calls it has issued, in order, with their page and answer
  ffail    \* the error of the call that failed, if one did

frameVars == <<fpc, ftree, fres, fpage, fobj, fstack, fret, flog, ffail>>

\* One goroutine, ElemProc, running Element.Hover, Element.Click or Element.Tap.
VARIABLES
  ec,      \* position inside the pointer action
  eop,     \* which of Hover, Click and Tap was called
  ebtn,    \* the button argument of Click
  eshape,  \* the local shape, what Interactable returned
  eerr,    \* what the pointer action returned
  elog     \* the stages it has run, in order, each with whether it succeeded

pipeVars == <<ec, eop, ebtn, eshape, eerr, elog>>
restVars == <<waitVars, removeVars, frameVars, pipeVars>>
exceptWait == <<mouseVars, interVars, stableVars, removeVars, frameVars, pipeVars>>
exceptRemove == <<mouseVars, interVars, stableVars, waitVars, frameVars, pipeVars>>
exceptFrame == <<mouseVars, interVars, stableVars, waitVars, removeVars, pipeVars>>
exceptPipe == <<interVars, stableVars, waitVars, removeVars, frameVars>>
elemVars == <<interVars, stableVars, restVars>>

vars == <<mouseVars, elemVars>>

defaultMouseButton == "left"

\* ----------------------------------------------------------- pure helpers

\* The value of an integer expression in the machine's wrapping arithmetic.
Wrap(v) == ((v - MinInt) % Modulus) + MinInt

\* Go's integer division truncates toward zero (b > 0 here).
TruncDiv(a, b) == IF a >= 0 THEN a \div b ELSE -((-a) \div b)

\* input.MouseKeys: the bit of each button in the "buttons" field.
MouseKeys(b) == IF b = "left" THEN 1 ELSE IF b = "right" THEN 2 ELSE 0

RECURSIVE HasButton(_, _)
HasButton(s, b) == IF s = <<>> THEN FALSE
                   ELSE IF Head(s) = b THEN TRUE ELSE HasButton(Tail(s), b)

\* input.EncodeMouseButton: the first pressed button (or "none") and the
\* bitwise OR of the pressed buttons' bits.
EncodeMouseButton(s) ==
  [button  |-> IF s = <<>> THEN "none" ELSE Head(s),
   buttons |-> (IF HasButton(s, "left") THEN MouseKeys("left") ELSE 0)
             + (IF HasButton(s, "right") THEN MouseKeys("right") ELSE 0)]

\* UpE removing only the first occurrence of b.
RECURSIVE RemoveFirstOnly(_, _)
RemoveFirstOnly(s, b) ==
  IF s = <<>> THEN <<>>
  ELSE IF Head(s) = b THEN Tail(s)
       ELSE <<Head(s)>> \o RemoveFirstOnly(Tail(s), b)

\* The loop of UpE: every element of s that differs from b, in order.
RECURSIVE RemoveButton(_, _)
RemoveButton(s, b) ==
  IF s = <<>> THEN <<>>
  ELSE IF Head(s) = b THEN RemoveButton(Tail(s), b)
       ELSE <<Head(s)>> \o RemoveButton(Tail(s), b)

\* steps < 1 is treated as 1.
NormSteps(steps) == IF steps < 1 THEN 1 ELSE steps

\* A stride rounded toward minus infinity instead of toward zero.
StrideFloor(target, current, steps) == Wrap(target - current) \div steps

\* The stride of MoveE, computed once per call.
Stride(target, current, steps) == TruncDiv(Wrap(target - current), steps)

\* A DownE that skips a button already pressed.
DownButtonsNoDup(s, b) == IF HasButton(s, b) THEN s ELSE Append(s, b)

\* toButtons of DownE.
DownButtons(s, b) == Append(s, b)

\* ClickE's button: the default when empty.
ClickButton(b) == IF b = "" THEN defaultMouseButton ELSE b

NoEvent == [type |-> "none", by |-> 0, x |-> 0, y |-> 0, button |-> "none",
            buttons |-> 0, clickCount |-> 0]

\* The locals of a call. op, click (ClickE is the caller), button, clicks, tx,
\* ty, steps, stepX, stepY, i, enc, toButtons and err are the code's; the rest
\* records what the call saw: rawSteps and arg the arguments as passed,
\* startX, startY and startButtons the state read under the lock, sent the
\* number of events the call got accepted.
NoFrame == [op |-> "none", click |-> FALSE, button |-> "none", clicks |-> 0,
            tx |-> 0, ty |-> 0, steps |-> 0, stepX |-> 0, stepY |-> 0, i |-> 0,
            enc |-> [button |-> "none", buttons |-> 0], toButtons |-> <<>>,
            err |-> "none",
            rawSteps |-> 0, arg |-> "none", sent |-> 0,
            startX |-> 0, startY |-> 0, startButtons |-> <<>>]

NoReturn == [by |-> 0, op |-> "none", click |-> FALSE, val |-> "none"]

\* MoveE, DownE or UpE, with locals f, returns f.err to goroutine p.
Returned(p, f) == [by |-> p, op |-> f.op, click |-> f.click, val |-> f.err]

\* ------------------------------------------------------- element helpers

\* A []proto.DOMQuad: a nil slice and an empty slice both have length 0 but
\* are different values to reflect.DeepEqual.
NilShape == [isNil |-> TRUE, quads |-> <<>>]
MkShape(q) == [isNil |-> FALSE, quads |-> q]

\* A proto.DOMQuad is eight numbers, the x and y of four corners.
QuadA == <<0, 0, 2, 0, 2, 2, 0, 2>>
QuadB == <<1, 1, 4, 1, 4, 4, 1, 4>>
QuadC == <<-3, 0, 0, 0, 0, 2, -3, 2>>

\* What DOM.getContentQuads can answer for the element.
Shapes ==
  {NilShape, MkShape(<<>>), MkShape(<<QuadA>>), MkShape(<<QuadB>>),
   MkShape(<<QuadC>>), MkShape(<<QuadB, QuadA>>)}

\* window.scrollX, window.scrollY
ScrollOffsets == (0..MaxScroll) \X (0..MaxScroll)

\* The element the handle refers to, and the document around it.
Target == "el"
Parent == [body |-> "", el |-> "body", child |-> "el", cover |-> "body"]
DOM == {"body", "el", "child", "cover"}

NilErr == [kind |-> "nil", from |-> "", el |-> "", msg |-> ""]
\* The error a failed call returned, told apart by the call it came from.
CallErr(c) == [kind |-> "call", from |-> c, el |-> "", msg |-> ""]
\* el.ctx.Err()
CtxErr == [kind |-> "canceled", from |-> "ctx", el |-> "", msg |-> ""]
\* newErr(ErrNotInteractable, details, msg)
ErrNotInteractable(e, m) == [kind |-> "NotInteractable", from |-> "", el |-> e, msg |-> m]

\* Element.Shape: the quads of the answer, or nil and the error.
Shape(ok, s) ==
  IF ok THEN [shape |-> s, err |-> NilErr]
        ELSE [shape |-> NilShape, err |-> CallErr("Shape")]

\* An emptiness test that never finds a shape empty.
NeverEmpty(s) == FALSE

\* len(shape) == 0
IsEmptyShape(s) == Len(s.quads) = 0

\* int64(q.CenterX()), int64(q.CenterY()): the mean of the four corners,
\* converted to an integer by dropping the fraction.
CenterX(q) == TruncDiv(q[1] + q[3] + q[5] + q[7], 4)
CenterY(q) == TruncDiv(q[2] + q[4] + q[6] + q[8], 4)

\* A hit-test point that leaves the scroll offset out.
HitPointNoScroll(s, off) == <<CenterX(s.quads[1]), CenterY(s.quads[1])>>

\* The arguments of ElementFromPoint.
HitPoint(s, off) ==
  <<CenterX(s.quads[1]) + off[1], CenterY(s.quads[1]) + off[2]>>

\* js.ContainsElement: walk up from target through the parents until this
\* element is met or the parents run out.
RECURSIVE ContainsElement(_, _)
ContainsElement(this, target) ==
  IF target = "" THEN FALSE
  ELSE IF target = this THEN TRUE
  ELSE ContainsElement(this, Parent[target])

\* A comparison of the number of quads only.
DeepEqualLen(a, b) == Len(a.quads) = Len(b.quads)

\* reflect.DeepEqual on two []proto.DOMQuad
DeepEqual(a, b) == a.isNil = b.isNil /\ a.quads = b.quads

\* A JSON value as gjson reads it: its type, and its number or string.
JSONValue(t, n, str) == [type |-> t, num |-> n, str |-> str]
NoValue == JSONValue("none", 0, "")
JSONTrue == JSONValue("True", 0, "")
JSONFalse == JSONValue("False", 0, "")
\* What an evaluation in the page can answer with.
JSONValues ==
  {JSONTrue, JSONFalse, JSONValue("Null", 0, ""), JSONValue("Number", 0, ""),
   JSONValue("Number", 1, ""), JSONValue("String", 0, "true"),
   JSONValue("String", 0, "no")}

\* A conversion that takes every answer other than false for true.
BoolNotFalse(v) == v.type # "False"

\* res.Value.Bool(): true for the JSON true, for a number other than 0 and
\* for a string that spells a true boolean; false for everything else.
Bool(v) ==
  CASE v.type = "True" -> TRUE
    [] v.type = "Number" -> v.num # 0
    [] v.type = "String" -> v.str \in {"1", "t", "true"}
    [] OTHER -> FALSE

\* The predicates Wait is called with: js.Visible by WaitVisible, js.Invisible
\* by WaitInvisible, and any script of the caller.
Predicates == {"visible", "invisible", "custom"}

\* What the page answers to the predicate: the two helpers answer with a
\* boolean computed from the element as the page has it, a script of the
\* caller with any value.
EvalAnswers(js, vis) ==
  IF js = "custom" THEN JSONValues
  ELSE IF (js = "visible") = vis THEN {JSONTrue} ELSE {JSONFalse}

\* The next value of a counter that stops at its bound.
CountUp(n, max) == IF n < max THEN n + 1 ELSE max

\* An operation on the handle: its name, whether it succeeded, and whether a
\* Remove had returned success before it started.
HandleOp(op, ok, after) == [op |-> op, ok |-> ok, afterRemove |-> after]
NoOp == HandleOp("none", FALSE, FALSE)
\* Operations that send the handle's ObjectID to the remote side.
HandleOps == {"Shape", "Eval", "ScrollIntoView", "Release"}

\* A Remove that returns after the evaluation whatever its outcome.
AfterDetachNoRelease(ok) == "done"

\* Remove after el.Eval(`this.remove()`): return the error, or go on to
\* el.Release().
AfterDetach(ok) == IF ok THEN "release" ELSE "done"

\* Pages: 0 is the page of the handle, 1..4 are the pages of iframes.
Frames == 1..4
Pages == 0..4

\* page.Elements("iframe") for each page, in document order.
NoFrames == [n \in Pages |-> <<>>]
Chain == [n \in Pages |-> CASE n = 0 -> <<1>> [] n = 1 -> <<2>> [] n = 2 -> <<3>> [] OTHER -> <<>>]
ChainAndSibling == [n \in Pages |-> CASE n = 0 -> <<1, 4>> [] n = 1 -> <<2>> [] n = 2 -> <<3>> [] OTHER -> <<>>]
SiblingAndChain == [n \in Pages |-> CASE n = 0 -> <<1, 2>> [] n = 2 -> <<3>> [] n = 3 -> <<4>> [] OTHER -> <<>>]
TwoBranches == [n \in Pages |-> CASE n = 0 -> <<1, 3>> [] n = 1 -> <<2>> [] n = 3 -> <<4>> [] OTHER -> <<>>]
Trees == {NoFrames, Chain, ChainAndSibling, SiblingAndChain, TwoBranches}

\* The object reference resolveNode yields in page n.
ObjIn(n) == <<"obj", n>>

\* io.EOF
EOF == [kind |-> "EOF", from |-> "io", el |-> "", msg |-> ""]

\* What a call can end with: no error, an error of its own, or io.EOF.
Outcomes == {"ok", "err", "eof"}
OutcomeErr(e, c) == IF e = "ok" THEN NilErr ELSE IF e = "eof" THEN EOF ELSE CallErr(c)

\* A result of walk passed on as it is.
WalkResultAsIs(err) == err

\* err = walk(el.page); if err == io.EOF { return nil }; return err
WalkResult(err) == IF err = EOF THEN NilErr ELSE err

\* One call of walk: its page, the index of the iframe it is at (1-based, 0
\* before the list is fetched) and what it does next.
WalkFrame(page, idx, stage) == [page |-> page, idx |-> idx, stage |-> stage]

\* A search that ends as soon as one walk has run out of iframes.
SettleStop(tree, st) ==
  IF st = <<>> THEN st
  ELSE IF st[Len(st)].idx <= Len(tree[st[Len(st)].page]) THEN st ELSE <<>>

\* The stack once every walk whose loop has run out has returned nil to its
\* caller, and the caller has moved to its next iframe.
RECURSIVE Settle(_, _)
Settle(tree, st) ==
  IF st = <<>> THEN st
  ELSE LET top == st[Len(st)]
       IN IF top.idx <= Len(tree[top.page]) THEN st
          ELSE IF Len(st) = 1 THEN <<>>
          ELSE LET up == st[Len(st) - 1]
               IN Settle(tree, Append(SubSeq(st, 1, Len(st) - 2),
                                      WalkFrame(up.page, up.idx + 1, "frame")))

\* One entry of the record of calls: the call, its arguments, whether it
\* succeeded and what it answered.
ICall(c, a, ok, r) == [call |-> c, arg |-> a, ok |-> ok, res |-> r]

\* ------------------------------------------------------------------- Init

InitMouse ==
  /\ x = 0
  /\ y = 0
  /\ buttons = <<>>
  /\ lock = 0
  /\ pc = [p \in Procs |-> "idle"]
  /\ fr = [p \in Procs |-> NoFrame]
  /\ ret = NoReturn
  /\ wire = NoEvent
  /\ lastMove = <<>>
  /\ lastBtn = <<>>
  /\ calls = 0

InitElem ==
  /\ ipc = "idle"
  /\ ishape = NilShape
  /\ iscroll = <<0, 0>>
  /\ ielAt = ""
  /\ ierr = NilErr
  /\ ilog = <<>>
  /\ wpc = "idle"
  /\ wshape = NilShape
  /\ wcur = NilShape
  /\ wret = NilErr
  /\ canceled = FALSE
  /\ tick = FALSE
  /\ nSamples = 0
  /\ nTicks = 0
  /\ eqSeen = FALSE
  /\ early = FALSE
  /\ failed = ""
  /\ tpc = "idle"
  /\ tjs = "visible"
  /\ shown = FALSE
  /\ tret = NilErr
  /\ nEvals = 0
  /\ lastEval = NoValue
  /\ rpc = "idle"
  /\ rret = NilErr
  /\ rlog = <<>>
  /\ attached = TRUE
  /\ released = FALSE
  /\ removedOk = FALSE
  /\ lastOp = NoOp
  /\ nOps = 0
  /\ fpc = "idle"
  /\ ftree = NoFrames
  /\ fres = {}
  /\ fpage = 0
  /\ fobj = ObjIn(0)
  /\ fstack = <<>>
  /\ fret = NilErr
  /\ flog = <<>>
  /\ ffail = NilErr
  /\ ec = "idle"
  /\ eop = "none"
  /\ ebtn = "none"
  /\ eshape = NilShape
  /\ eerr = NilErr
  /\ elog = <<>>

Init == InitMouse /\ InitElem

\* A Lock that does not wait.
CanLockAlways(p) == TRUE

\* sync.Mutex.Lock returns only when the mutex is free. A goroutine blocked in
\* Lock at the start of a call has done nothing yet, so a call and its Lock are
\* one step; the Lock of the UpE inside ClickE is a step of its own (UpLock).
CanLock(p) == lock = 0

\* --------------------------------------------- pointer actions, helpers

\* The goroutine that runs the pointer action of the element.
ElemProc == 1

\* Every stage ends with "if err != nil { return err }", so an error skips
\* the rest: the stage reached after a stage that answered ok.
AfterStageIgnoreErr(ok, next) == next

AfterStage(ok, next) == IF ok THEN next ELSE "done"

\* The error the pointer action hands on when a Mouse call returned err.
MouseErr(err) == IF err = "nil" THEN NilErr ELSE CallErr("Mouse")

\* Mouse.Move returned to Hover: Hover returns its err, and Click, which
\* called Hover, goes on to Mouse.Click when that err is nil.
AfterMoveIgnoreErr(op, err) == IF op = "Click" THEN "click" ELSE "done"

AfterMove(op, err) == AfterStage(err = "nil", IF op = "Click" THEN "click" ELSE "done")

\* A Mouse call made by the pointer action returns err to it.
ReturnToElement(p, stage, err) ==
  IF p = ElemProc /\ ec = stage
    THEN /\ elog' = Append(elog, <<IF stage = "move" THEN "Move" ELSE "Click", err = "nil">>)
         /\ ec' = IF stage = "move" THEN AfterMove(eop, err) ELSE "done"
         /\ eerr' = MouseErr(err)
         /\ UNCHANGED <<eop, ebtn, eshape>>
    ELSE UNCHANGED pipeVars

\* ---------------------------------------------------------------- MoveE

\* MoveE up to the loop: steps is normalised, the mutex is taken, the stride
\* and the button encoding are computed once from the state under the lock.
MoveE(p, tx, ty, steps) ==
  /\ pc[p] = "idle"
  /\ calls < MaxCalls
  /\ CanLock(p)
  /\ calls' = calls + 1
  /\ lock' = p
  /\ LET n == NormSteps(steps)
     IN fr' = [fr EXCEPT ![p] = [NoFrame EXCEPT !.op = "Move", !.tx = tx, !.ty = ty,
                                  !.steps = n, !.rawSteps = steps,
                                  !.stepX = Stride(tx, x, n),
                                  !.stepY = Stride(ty, y, n),
                                  !.enc = EncodeMouseButton(buttons),
                                  !.i = 0,
                                  !.startX = x, !.startY = y,
                                  !.startButtons = buttons]]
  /\ pc' = [pc EXCEPT ![p] = "move_loop"]
  /\ ret' = NoReturn
  /\ wire' = NoEvent
  /\ UNCHANGED <<x, y, buttons, lastMove, lastBtn>>
  /\ UNCHANGED elemVars

\* A commit before the error check.
MoveCommitAlways(cur, to, ok) == to

\* The cursor after a dispatch of MoveE that returned ok / an error.
MoveCommit(cur, to, ok) == IF ok THEN to ELSE cur

\* One iteration of the loop: dispatch one mouseMoved; commit on success,
\* leave the loop with the error on failure.
MoveStep(p, ok) ==
  /\ pc[p] = "move_loop"
  /\ fr[p].i < fr[p].steps
  /\ LET toX == Wrap(x + fr[p].stepX)
         toY == Wrap(y + fr[p].stepY)
         ev  == [type |-> "mouseMoved", by |-> p, x |-> toX, y |-> toY,
                 button |-> fr[p].enc.button, buttons |-> fr[p].enc.buttons,
                 clickCount |-> 0]
     IN /\ x' = MoveCommit(x, toX, ok)
        /\ y' = MoveCommit(y, toY, ok)
        /\ IF ok
           THEN /\ wire' = ev
                /\ lastMove' = <<toX, toY>>
                /\ fr' = [fr EXCEPT ![p].i = @ + 1, ![p].sent = @ + 1]
                /\ UNCHANGED pc
           ELSE /\ wire' = NoEvent
                /\ fr' = [fr EXCEPT ![p].err = "err"]
                /\ pc' = [pc EXCEPT ![p] = "move_ret"]
                /\ UNCHANGED lastMove
  /\ ret' = NoReturn
  /\ UNCHANGED <<buttons, lock, lastBtn, calls>>
  /\ UNCHANGED elemVars

\* The loop is over without an error: return nil.
MoveDone(p) ==
  /\ pc[p] = "move_loop"
  /\ fr[p].i >= fr[p].steps
  /\ fr' = [fr EXCEPT ![p].err = "nil"]
  /\ pc' = [pc EXCEPT ![p] = "move_ret"]
  /\ ret' = NoReturn
  /\ wire' = NoEvent
  /\ UNCHANGED <<x, y, buttons, lock, lastMove, lastBtn, calls>>
  /\ UNCHANGED elemVars

\* MoveE returns: the deferred Unlock runs.
MoveReturn(p) ==
  /\ pc[p] = "move_ret"
  /\ lock' = 0
  /\ pc' = [pc EXCEPT ![p] = "idle"]
  /\ ret' = Returned(p, fr[p])
  /\ fr' = [fr EXCEPT ![p] = NoFrame]
  /\ wire' = NoEvent
  /\ UNCHANGED <<x, y, buttons, lastMove, lastBtn, calls>>
  /\ ReturnToElement(p, "move", fr[p].err)
  /\ UNCHANGED exceptPipe

\* ---------------------------------------------------------------- DownE

\* The locals of DownE once it holds the mutex: toButtons and its encoding.
\* click tells whether ClickE is the caller.
DownFrame(b, clicks, click) ==
  LET to == DownButtons(buttons, b)
  IN [NoFrame EXCEPT !.op = "Down", !.click = click, !.button = b, !.arg = b,
                     !.clicks = clicks, !.toButtons = to,
                     !.enc = EncodeMouseButton(to),
                     !.startX = x, !.startY = y, !.startButtons = buttons]

\* DownE up to the dispatch.
DownE(p, b, clicks) ==
  /\ pc[p] = "idle"
  /\ calls < MaxCalls
  /\ CanLock(p)
  /\ calls' = calls + 1
  /\ lock' = p
  /\ fr' = [fr EXCEPT ![p] = DownFrame(b, clicks, FALSE)]
  /\ pc' = [pc EXCEPT ![p] = "down_call"]
  /\ ret' = NoReturn
  /\ wire' = NoEvent
  /\ UNCHANGED <<x, y, buttons, lastMove, lastBtn>>
  /\ UNCHANGED elemVars

\* A commit before the error check.
ButtonsCommitAlways(cur, to, ok) == to

\* The pressed sequence after a press / release dispatch that returned ok / an error.
ButtonsCommit(cur, to, ok) == IF ok THEN to ELSE cur

\* Dispatch mousePressed; commit toButtons on success.
DownCall(p, ok) ==
  /\ pc[p] = "down_call"
  /\ LET ev == [type |-> "mousePressed", by |-> p, x |-> x, y |-> y,
                button |-> fr[p].button, buttons |-> fr[p].enc.buttons,
                clickCount |-> fr[p].clicks]
     IN /\ buttons' = ButtonsCommit(buttons, fr[p].toButtons, ok)
        /\ IF ok
           THEN /\ wire' = ev
                /\ lastBtn' = fr[p].toButtons
                /\ fr' = [fr EXCEPT ![p].err = "nil", ![p].sent = 1]
           ELSE /\ wire' = NoEvent
                /\ fr' = [fr EXCEPT ![p].err = "err"]
                /\ UNCHANGED lastBtn
  /\ pc' = [pc EXCEPT ![p] = "down_ret"]
  /\ ret' = NoReturn
  /\ UNCHANGED <<x, y, lock, lastMove, calls>>
  /\ UNCHANGED elemVars

\* A ClickE that ignores the error of DownE.
AfterDownIgnoreErr(click, err) == IF click THEN "up_lock" ELSE "idle"

\* Where a goroutine goes when DownE returned err: ClickE calls UpE after a
\* DownE that returned nil, and returns the error of a failed one.
AfterDown(click, err) == IF click /\ err = "nil" THEN "up_lock" ELSE "idle"

\* DownE returns: the deferred Unlock runs; inside ClickE a nil return leads
\* to UpE(button, 1).
DownReturn(p) ==
  /\ pc[p] = "down_ret"
  /\ lock' = 0
  /\ LET next == AfterDown(fr[p].click, fr[p].err)
     IN /\ pc' = [pc EXCEPT ![p] = next]
        /\ fr' = [fr EXCEPT ![p] =
                    IF next = "up_lock"
                    THEN [NoFrame EXCEPT !.op = "Up", !.click = TRUE,
                                         !.button = fr[p].button, !.clicks = 1]
                    ELSE NoFrame]
  /\ ret' = Returned(p, fr[p])
  /\ wire' = NoEvent
  /\ UNCHANGED <<x, y, buttons, lastMove, lastBtn, calls>>
  /\ IF fr[p].click /\ AfterDown(fr[p].click, fr[p].err) = "idle"
       THEN ReturnToElement(p, "click", fr[p].err)
       ELSE UNCHANGED pipeVars
  /\ UNCHANGED exceptPipe

\* ------------------------------------------------------------------ UpE

\* The locals of UpE once it holds the mutex: the filtered sequence and its
\* encoding.
UpFrame(b, clicks, click) ==
  LET to == RemoveButton(buttons, b)
  IN [NoFrame EXCEPT !.op = "Up", !.click = click, !.button = b, !.arg = b,
                     !.clicks = clicks, !.toButtons = to,
                     !.enc = EncodeMouseButton(to),
                     !.startX = x, !.startY = y, !.startButtons = buttons]

\* UpE up to the dispatch.
UpE(p, b, clicks) ==
  /\ pc[p] = "idle"
  /\ calls < MaxCalls
  /\ CanLock(p)
  /\ calls' = calls + 1
  /\ lock' = p
  /\ fr' = [fr EXCEPT ![p] = UpFrame(b, clicks, FALSE)]
  /\ pc' = [pc EXCEPT ![p] = "up_call"]
  /\ ret' = NoReturn
  /\ wire' = NoEvent
  /\ UNCHANGED <<x, y, buttons, lastMove, lastBtn>>
  /\ UNCHANGED elemVars

\* The UpE that ClickE calls after its DownE returned nil, up to the dispatch.
UpLock(p) ==
  /\ pc[p] = "up_lock"
  /\ CanLock(p)
  /\ lock' = p
  /\ fr' = [fr EXCEPT ![p] = UpFrame(fr[p].button, fr[p].clicks, TRUE)]
  /\ pc' = [pc EXCEPT ![p] = "up_call"]
  /\ ret' = NoReturn
  /\ wire' = NoEvent
  /\ UNCHANGED <<x, y, buttons, lastMove, lastBtn, calls>>
  /\ UNCHANGED elemVars

\* Dispatch mouseReleased; commit toButtons on success.
UpCall(p, ok) ==
  /\ pc[p] = "up_call"
  /\ LET ev == [type |-> "mouseReleased", by |-> p, x |-> x, y |-> y,
                button |-> fr[p].button, buttons |-> fr[p].enc.buttons,
                clickCount |-> fr[p].clicks]
     IN /\ buttons' = ButtonsCommit(buttons, fr[p].toButtons, ok)
        /\ IF ok
           THEN /\ wire' = ev
                /\ lastBtn' = fr[p].toButtons
                /\ fr' = [fr EXCEPT ![p].err = "nil", ![p].sent = 1]
           ELSE /\ wire' = NoEvent
                /\ fr' = [fr EXCEPT ![p].err = "err"]
                /\ UNCHANGED lastBtn
  /\ pc' = [pc EXCEPT ![p] = "up_ret"]
  /\ ret' = NoReturn
  /\ UNCHANGED <<x, y, lock, lastMove, calls>>
  /\ UNCHANGED elemVars

\* UpE returns (and with it ClickE, when ClickE called it): the deferred
\* Unlock runs.
UpReturn(p) ==
  /\ pc[p] = "up_ret"
  /\ lock' = 0
  /\ pc' = [pc EXCEPT ![p] = "idle"]
  /\ ret' = Returned(p, fr[p])
  /\ fr' = [fr EXCEPT ![p] = NoFrame]
  /\ wire' = NoEvent
  /\ UNCHANGED <<x, y, buttons, lastMove, lastBtn, calls>>
  /\ IF fr[p].click
       THEN ReturnToElement(p, "click", fr[p].err)
       ELSE UNCHANGED pipeVars
  /\ UNCHANGED exceptPipe

\* --------------------------------------------------------------- ClickE

\* ClickE defaults the button and calls DownE(button, 1).
ClickE(p, b) ==
  /\ pc[p] = "idle"
  /\ calls < MaxCalls
  /\ CanLock(p)
  /\ calls' = calls + 1
  /\ lock' = p
  /\ fr' = [fr EXCEPT ![p] = [DownFrame(ClickButton(b), 1, TRUE) EXCEPT !.arg = b]]
  /\ pc' = [pc EXCEPT ![p] = "down_call"]
  /\ ret' = NoReturn
  /\ wire' = NoEvent
  /\ UNCHANGED <<x, y, buttons, lastMove, lastBtn>>
  /\ UNCHANGED elemVars

\* ------------------------------------------------------------------- Next

Next ==
  \/ \E p \in Procs, tx \in XCoords, ty \in YCoords, s \in StepArgs : MoveE(p, tx, ty, s)
  \/ \E p \in Procs, ok \in BOOLEAN : MoveStep(p, ok)
  \/ \E p \in Procs : MoveDone(p)
  \/ \E p \in Procs : MoveReturn(p)
  \/ \E p \in Procs, b \in Buttons, c \in ClickCounts : DownE(p, b, c)
  \/ \E p \in Procs, ok \in BOOLEAN : DownCall(p, ok)
  \/ \E p \in Procs : DownReturn(p)
  \/ \E p \in Procs, b \in Buttons, c \in ClickCounts : UpE(p, b, c)
  \/ \E p \in Procs : UpLock(p)
  \/ \E p \in Procs, ok \in BOOLEAN : UpCall(p, ok)
  \/ \E p \in Procs : UpReturn(p)
  \/ \E p \in Procs, b \in Buttons \cup {""} : ClickE(p, b)

Spec == Init /\ [][Next]_vars

\* MoveE as a function of the cursor and its arguments: one call by one
\* goroutine, from any cursor position earlier calls can have left (a one-step
\* Move puts the cursor anywhere) to any target an int64 can hold.
InitMove ==
  /\ x \in IntRange
  /\ y \in YCoords
  /\ buttons = <<>>
  /\ lock = 0
  /\ pc = [p \in Procs |-> "idle"]
  /\ fr = [p \in Procs |-> NoFrame]
  /\ ret = NoReturn
  /\ wire = NoEvent
  /\ lastMove = <<x, y>>
  /\ lastBtn = <<>>
  /\ calls = MaxCalls - 1
  /\ InitElem

NextMove ==
  \/ \E tx \in IntRange, ty \in YCoords, s \in StepArgs : MoveE(1, tx, ty, s)
  \/ \E ok \in BOOLEAN : MoveStep(1, ok)
  \/ MoveDone(1)
  \/ MoveReturn(1)

SpecMove == InitMove /\ [][NextMove]_vars

\* ----------------------------------------------------------- Interactable

\* A call of Element.Interactable: results and locals at their zero values.
InteractableEnter ==
  /\ ipc \in {"idle", "done"}
  /\ ipc' = "shape"
  /\ ishape' = NilShape
  /\ iscroll' = <<0, 0>>
  /\ ielAt' = ""
  /\ ierr' = NilErr
  /\ ilog' = <<>>

Interactable ==
  /\ InteractableEnter
  /\ UNCHANGED <<mouseVars, stableVars, restVars>>

\* shape, err = el.Shape(), the error check and the emptiness check.
InteractableShape(ok, s) ==
  /\ ipc = "shape"
  /\ LET r == Shape(ok, s)
     IN /\ ishape' = r.shape
        /\ IF r.err # NilErr
             THEN ierr' = r.err /\ ipc' = "done"
             ELSE IF IsEmptyShape(r.shape)
                    THEN /\ ierr' = ErrNotInteractable(Target, "element has no visible shape")
                         /\ ipc' = "done"
                    ELSE ierr' = NilErr /\ ipc' = "scroll"
  /\ ilog' = Append(ilog, ICall("Shape", <<>>, ok, Shape(ok, s).shape.quads))
  /\ UNCHANGED <<iscroll, ielAt>>
  /\ UNCHANGED <<mouseVars, stableVars, restVars>>

\* scroll, err := el.page.Root().Eval(...) and the error check.
InteractableScroll(ok, off) ==
  /\ ipc = "scroll"
  /\ ilog' = Append(ilog, ICall("Eval", <<>>, ok, IF ok THEN off ELSE <<>>))
  /\ IF ok
       THEN iscroll' = off /\ ierr' = NilErr /\ ipc' = "hit"
       ELSE iscroll' = iscroll /\ ierr' = CallErr("Eval") /\ ipc' = "done"
  /\ UNCHANGED <<ishape, ielAt>>
  /\ UNCHANGED <<mouseVars, stableVars, restVars>>

\* elAtPoint, err := el.page.ElementFromPoint(...) and the error check.
InteractableHit(ok, e) ==
  /\ ipc = "hit"
  /\ ilog' = Append(ilog, ICall("ElementFromPoint", HitPoint(ishape, iscroll), ok,
                        IF ok THEN <<e>> ELSE <<>>))
  /\ IF ok
       THEN ielAt' = e /\ ierr' = NilErr /\ ipc' = "contains"
       ELSE ielAt' = ielAt /\ ierr' = CallErr("ElementFromPoint") /\ ipc' = "done"
  /\ UNCHANGED <<ishape, iscroll>>
  /\ UNCHANGED <<mouseVars, stableVars, restVars>>

\* yes, err := el.ContainsElement(elAtPoint), the error check and the verdict.
InteractableContains(ok) ==
  /\ ipc = "contains"
  /\ ilog' = Append(ilog, ICall("ContainsElement", <<ielAt>>, ok,
                        IF ok THEN <<ContainsElement(Target, ielAt)>> ELSE <<>>))
  /\ ierr' = IF ~ok THEN CallErr("ContainsElement")
             ELSE IF ~ContainsElement(Target, ielAt)
                    THEN ErrNotInteractable(ielAt, "another element covers current one")
                    ELSE NilErr
  /\ ipc' = "done"
  /\ UNCHANGED <<ishape, iscroll, ielAt>>
  /\ UNCHANGED <<mouseVars, stableVars, restVars>>

NextInteractable ==
  \/ Interactable
  \/ \E ok \in BOOLEAN, s \in Shapes : InteractableShape(ok, s)
  \/ \E ok \in BOOLEAN, off \in ScrollOffsets : InteractableScroll(ok, off)
  \/ \E ok \in BOOLEAN, e \in DOM : InteractableHit(ok, e)
  \/ \E ok \in BOOLEAN : InteractableContains(ok)

SpecInteractable == Init /\ [][NextInteractable]_vars

\* ------------------------------------------------------------- WaitStable

\* A call of Element.WaitStable.
WaitStable ==
  /\ wpc = "idle"
  /\ wpc' = "visible"
  /\ UNCHANGED <<wshape, wcur, wret, canceled, tick, nSamples, nTicks, eqSeen, early, failed>>
  /\ UNCHANGED <<mouseVars, interVars, restVars>>

\* err := el.WaitVisible() and the error check.
WaitStableVisible(ok) ==
  /\ wpc = "visible"
  /\ IF ok THEN wpc' = "first" /\ wret' = wret
           ELSE wpc' = "done" /\ wret' = CallErr("WaitVisible")
  /\ failed' = IF ok THEN "" ELSE "WaitVisible"
  /\ UNCHANGED <<wshape, wcur, canceled, tick, nSamples, nTicks, eqSeen, early>>
  /\ UNCHANGED <<mouseVars, interVars, restVars>>

\* shape, err := el.Shape(), the error check and time.NewTicker(interval).
WaitStableFirst(ok, s) ==
  /\ wpc = "first"
  /\ LET r == Shape(ok, s)
     IN IF r.err # NilErr
          THEN wpc' = "done" /\ wret' = r.err /\ wshape' = wshape
          ELSE wpc' = "select" /\ wret' = wret /\ wshape' = r.shape
  /\ nSamples' = nSamples + 1
  /\ tick' = FALSE
  /\ failed' = IF ok THEN "" ELSE "Shape"
  /\ UNCHANGED <<wcur, canceled, nTicks, eqSeen, early>>
  /\ UNCHANGED <<mouseVars, interVars, restVars>>

\* The ticker fires: its channel holds at most one tick.
Tick ==
  /\ wpc \in {"select", "sample"}
  /\ ~tick
  /\ tick' = TRUE
  /\ UNCHANGED <<wpc, wshape, wcur, wret, canceled, nSamples, nTicks, eqSeen, early, failed>>
  /\ UNCHANGED <<mouseVars, interVars, restVars>>

\* The owner of el.ctx cancels it. A call in progress is not interrupted, and
\* a call made on a canceled scope can still answer.
Cancel ==
  /\ ~canceled
  /\ canceled' = TRUE
  /\ early' = (wpc = "select")
  /\ UNCHANGED <<wpc, wshape, wcur, wret, tick, nSamples, nTicks, eqSeen, failed>>
  /\ UNCHANGED <<mouseVars, interVars, restVars>>

\* select takes case <-t.C
WaitStableSelectTick ==
  /\ wpc = "select"
  /\ tick
  /\ tick' = FALSE
  /\ nTicks' = nTicks + 1
  /\ wpc' = "sample"
  /\ UNCHANGED <<wshape, wcur, wret, canceled, nSamples, eqSeen, early, failed>>
  /\ UNCHANGED <<mouseVars, interVars, restVars>>

\* select takes case <-el.ctx.Done(): return el.ctx.Err()
WaitStableSelectDone ==
  /\ wpc = "select"
  /\ canceled
  /\ wpc' = "done"
  /\ wret' = CtxErr
  /\ UNCHANGED <<wshape, wcur, canceled, tick, nSamples, nTicks, eqSeen, early, failed>>
  /\ UNCHANGED <<mouseVars, interVars, restVars>>

\* current, err := el.Shape(), the error check, the comparison and
\* shape = current.
WaitStableSample(ok, s) ==
  /\ wpc = "sample"
  /\ nSamples < MaxSamples
  /\ nSamples' = nSamples + 1
  /\ LET r == Shape(ok, s)
     IN /\ eqSeen' = (ok /\ s = wshape)
        /\ failed' = IF ok THEN "" ELSE "Shape"
        /\ IF r.err # NilErr
             THEN wpc' = "done" /\ wret' = r.err /\ UNCHANGED <<wshape, wcur>>
             ELSE /\ wcur' = r.shape
                  /\ IF DeepEqual(wshape, r.shape)
                       THEN wpc' = "done" /\ wret' = NilErr /\ wshape' = wshape
                       ELSE wpc' = "select" /\ wret' = wret /\ wshape' = r.shape
  /\ UNCHANGED <<canceled, tick, nTicks, early>>
  /\ UNCHANGED <<mouseVars, interVars, restVars>>

NextWaitStable ==
  \/ WaitStable
  \/ \E ok \in BOOLEAN : WaitStableVisible(ok)
  \/ \E ok \in BOOLEAN, s \in Shapes : WaitStableFirst(ok, s)
  \/ Tick
  \/ Cancel
  \/ WaitStableSelectTick
  \/ WaitStableSelectDone
  \/ \E ok \in BOOLEAN, s \in Shapes : WaitStableSample(ok, s)

SpecWaitStable == Init /\ [][NextWaitStable]_vars

\* ------------------------------------------------------------------- Wait

\* A call of Element.Wait, directly or through WaitVisible or WaitInvisible.
Wait(js) ==
  /\ tpc = "idle"
  /\ tpc' = "eval"
  /\ tjs' = js
  /\ UNCHANGED <<shown, tret, nEvals, lastEval>>
  /\ UNCHANGED exceptWait

\* The page shows or hides the element.
Render ==
  /\ shown' = ~shown
  /\ UNCHANGED <<tpc, tjs, tret, nEvals, lastEval>>
  /\ UNCHANGED exceptWait

\* One call of the function Wait hands to utils.Retry: el.Eval, then stop
\* with the error, stop with nil when the answer converts to true, or go on.
WaitEval(ok, v) ==
  /\ tpc = "eval"
  /\ v \in EvalAnswers(tjs, shown)
  /\ nEvals' = CountUp(nEvals, MaxEvals)
  /\ IF ~ok
       THEN tpc' = "done" /\ tret' = CallErr("Eval") /\ lastEval' = NoValue
       ELSE /\ lastEval' = v
            /\ IF Bool(v) THEN tpc' = "done" /\ tret' = NilErr
                          ELSE tpc' = "sleep" /\ tret' = tret
  /\ UNCHANGED <<tjs, shown>>
  /\ UNCHANGED exceptWait

\* utils.Retry between two evaluations: the sleeper is given el.ctx and ends
\* the retry with the scope's error when the scope is canceled or expired.
WaitSleep ==
  /\ tpc = "sleep"
  /\ IF canceled THEN tpc' = "done" /\ tret' = CtxErr
                 ELSE tpc' = "eval" /\ tret' = tret
  /\ UNCHANGED <<tjs, shown, nEvals, lastEval>>
  /\ UNCHANGED exceptWait

NextWait ==
  \/ \E js \in Predicates : Wait(js)
  \/ Render
  \/ Cancel
  \/ \E ok \in BOOLEAN, v \in JSONValues : WaitEval(ok, v)
  \/ WaitSleep

SpecWait == Init /\ [][NextWait]_vars

\* A call in progress answers, and a goroutine that can run does.
FairWait == WF_vars(\E ok \in BOOLEAN, v \in JSONValues : WaitEval(ok, v)) /\ WF_vars(WaitSleep)

SpecWaitFair == SpecWait /\ FairWait

\* ----------------------------------------------------------------- Remove

\* A call of Element.Remove.
Remove ==
  /\ rpc \in {"idle", "done"}
  /\ rpc' = "eval"
  /\ rret' = NilErr
  /\ rlog' = <<>>
  /\ UNCHANGED <<attached, released, removedOk, lastOp, nOps>>
  /\ UNCHANGED exceptRemove

\* _, err := el.Eval(`this.remove()`) and the error check. The remote side
\* rejects a reference it has reclaimed; a call that fails can still have
\* taken effect in the page.
RemoveEval(ok, done) ==
  /\ rpc = "eval"
  /\ released => ~ok /\ ~done
  /\ ok => done
  /\ rlog' = Append(rlog, "Eval")
  /\ attached' = (attached /\ ~done)
  /\ rpc' = AfterDetach(ok)
  /\ rret' = IF ok THEN rret ELSE CallErr("Eval")
  /\ UNCHANGED <<released, removedOk, lastOp, nOps>>
  /\ UNCHANGED exceptRemove

\* return el.Release(): Runtime.releaseObject for el.ObjectID.
RemoveRelease(ok) ==
  /\ rpc = "release"
  /\ released => ~ok
  /\ rlog' = Append(rlog, "Release")
  /\ released' = (released \/ ok)
  /\ rpc' = "done"
  /\ rret' = IF ok THEN NilErr ELSE CallErr("Release")
  /\ removedOk' = (removedOk \/ ok)
  /\ UNCHANGED <<attached, lastOp, nOps>>
  /\ UNCHANGED exceptRemove

\* Any other operation on the handle, after or between calls of Remove: it
\* fails when the remote side has reclaimed the reference, and can fail or
\* succeed otherwise.
Operate(op, ok) ==
  /\ rpc \in {"idle", "done"}
  /\ nOps < MaxOps
  /\ released => ~ok
  /\ nOps' = nOps + 1
  /\ lastOp' = HandleOp(op, ok, removedOk)
  /\ released' = (released \/ (op = "Release" /\ ok))
  /\ UNCHANGED <<rpc, rret, rlog, attached, removedOk>>
  /\ UNCHANGED exceptRemove

NextRemove ==
  \/ Remove
  \/ \E ok \in BOOLEAN, done \in BOOLEAN : RemoveEval(ok, done)
  \/ \E ok \in BOOLEAN : RemoveRelease(ok)
  \/ \E op \in HandleOps, ok \in BOOLEAN : Operate(op, ok)

SpecRemove == Init /\ [][NextRemove]_vars

\* ------------------------------------------------------- ensureParentPage

FTop == fstack[Len(fstack)]

\* The iframes of a page taken from the last to the first.
FCurReversed == ftree[FTop.page][Len(ftree[FTop.page]) - FTop.idx + 1]

\* for _, f := range list: the iframe the innermost walk is at.
FCur == ftree[FTop.page][FTop.idx]

\* A cheap check that never ends the call.
AfterHasWalk(has) == "walk"

\* if has { return nil }
AfterHas(has) == IF has THEN "done" ELSE "walk"
\* The record of calls with one more: the call, the page or iframe it went
\* to, and what it answered.
FLogged(c, n, a) == Append(flog, <<c, n, a>>)

\* A call of Element.ensureParentPage on a handle made on page 0.
EnsureParentPage(t, r) ==
  /\ fpc \in {"idle", "done"}
  /\ fpc' = "has"
  /\ ftree' = t
  /\ fres' = r
  /\ fpage' = 0
  /\ fobj' = ObjIn(0)
  /\ fstack' = <<>>
  /\ fret' = NilErr
  /\ flog' = <<>>
  /\ ffail' = NilErr
  /\ UNCHANGED exceptFrame

\* walk ends, and with it ensureParentPage: every walk in progress passes a
\* result other than nil to its caller.
FReturn(err) ==
  /\ fpc' = "done"
  /\ fstack' = <<>>
  /\ fret' = err

\* The loop goes on with the stack st: the next iframe, or the end of the
\* outermost walk.
FContinue(st) ==
  LET to == Settle(ftree, st)
  IN IF to = <<>> THEN FReturn(WalkResult(NilErr))
                  ELSE fpc' = "walk" /\ fstack' = to /\ fret' = fret

\* has, err := el.page.hasElement(objID) and the two returns after it.
EnsureHas(e, has) ==
  /\ fpc = "has"
  /\ flog' = FLogged("hasElement", fpage, IF e # "ok" THEN e ELSE IF has THEN "yes" ELSE "no")
  /\ ffail' = OutcomeErr(e, "hasElement")
  /\ IF e # "ok" THEN FReturn(OutcomeErr(e, "hasElement"))
     ELSE IF AfterHas(has) = "done" THEN FReturn(NilErr)
     ELSE fpc' = "walk" /\ fstack' = <<WalkFrame(fpage, 0, "list")>> /\ fret' = fret
  /\ UNCHANGED <<ftree, fres, fpage, fobj>>
  /\ UNCHANGED exceptFrame

\* list, err := page.Elements("iframe") and the error check.
WalkElements(e) ==
  /\ fpc = "walk"
  /\ FTop.stage = "list"
  /\ flog' = FLogged("Elements", FTop.page, e)
  /\ ffail' = OutcomeErr(e, "Elements")
  /\ IF e # "ok" THEN FReturn(WalkResult(OutcomeErr(e, "Elements")))
     ELSE FContinue(Append(SubSeq(fstack, 1, Len(fstack) - 1),
                           WalkFrame(FTop.page, 1, "frame")))
  /\ UNCHANGED <<ftree, fres, fpage, fobj>>
  /\ UNCHANGED exceptFrame

\* p, err := f.Frame() and the error check.
WalkDerive(e) ==
  /\ fpc = "walk"
  /\ FTop.stage = "frame"
  /\ flog' = FLogged("Frame", FCur, e)
  /\ ffail' = OutcomeErr(e, "Frame")
  /\ IF e # "ok" THEN FReturn(WalkResult(OutcomeErr(e, "Frame")))
     ELSE /\ fpc' = "walk"
          /\ fstack' = Append(SubSeq(fstack, 1, Len(fstack) - 1),
                              WalkFrame(FTop.page, FTop.idx, "resolve"))
          /\ fret' = fret
  /\ UNCHANGED <<ftree, fres, fpage, fobj>>
  /\ UNCHANGED exceptFrame

\* objID, err := p.resolveNode(nodeID), the error check, the rebinding of the
\* handle on a match, and the call of walk(p) otherwise.
WalkResolve(e) ==
  /\ fpc = "walk"
  /\ FTop.stage = "resolve"
  /\ flog' = FLogged("resolveNode", FCur,
                   IF e # "ok" THEN e ELSE IF FCur \in fres THEN "hit" ELSE "miss")
  /\ ffail' = OutcomeErr(e, "resolveNode")
  /\ IF e # "ok"
       THEN FReturn(WalkResult(OutcomeErr(e, "resolveNode"))) /\ UNCHANGED <<fpage, fobj>>
       ELSE IF FCur \in fres
              THEN fpage' = FCur /\ fobj' = ObjIn(FCur) /\ FReturn(WalkResult(EOF))
              ELSE /\ fpc' = "walk"
                   /\ fstack' = Append(fstack, WalkFrame(FCur, 0, "list"))
                   /\ fret' = fret
                   /\ UNCHANGED <<fpage, fobj>>
  /\ UNCHANGED <<ftree, fres>>
  /\ UNCHANGED exceptFrame

NextFrame ==
  \/ \E t \in Trees, r \in SUBSET Frames : EnsureParentPage(t, r)
  \/ \E e \in Outcomes, has \in BOOLEAN : EnsureHas(e, has)
  \/ \E e \in Outcomes : WalkElements(e)
  \/ \E e \in Outcomes : WalkDerive(e)
  \/ \E e \in Outcomes : WalkResolve(e)

SpecFrame == Init /\ [][NextFrame]_vars

\* ------------------------------------------------- Hover, Click and Tap

\* Hover, Click and Tap each begin with the visibility wait; Click enters
\* through its call of Hover.
PointerCall(op, button) ==
  /\ ec = "idle"
  /\ ec' = "visible"
  /\ eop' = op
  /\ ebtn' = button
  /\ eshape' = NilShape
  /\ eerr' = NilErr
  /\ elog' = <<>>
  /\ UNCHANGED <<mouseVars, exceptPipe>>

Hover == PointerCall("Hover", "none")

Click(button) == PointerCall("Click", button)

Tap == PointerCall("Tap", "none")

\* err := el.WaitVisible() and the error check.
PointerWaitVisible(ok) ==
  /\ ec = "visible"
  /\ elog' = Append(elog, <<"WaitVisible", ok>>)
  /\ ec' = AfterStage(ok, "scroll")
  /\ eerr' = IF ok THEN NilErr ELSE CallErr("WaitVisible")
  /\ UNCHANGED <<eop, ebtn, eshape>>
  /\ UNCHANGED <<mouseVars, exceptPipe>>

\* err = el.ScrollIntoView() and the error check, and on success the call of
\* el.Interactable().
PointerScroll(ok) ==
  /\ ec = "scroll"
  /\ elog' = Append(elog, <<"ScrollIntoView", ok>>)
  /\ ec' = AfterStage(ok, "interact")
  /\ eerr' = IF ok THEN NilErr ELSE CallErr("ScrollIntoView")
  /\ IF AfterStage(ok, "interact") = "interact"
       THEN InteractableEnter
       ELSE UNCHANGED interVars
  /\ UNCHANGED <<eop, ebtn, eshape>>
  /\ UNCHANGED <<mouseVars, stableVars, waitVars, removeVars, frameVars>>

\* shape, err := el.Interactable() returns, and the error check. The locals of
\* Interactable end with its return.
PointerInteractable ==
  /\ ec = "interact"
  /\ ipc = "done"
  /\ elog' = Append(elog, <<"Interactable", ierr = NilErr>>)
  /\ ec' = AfterStage(ierr = NilErr, IF eop = "Tap" THEN "tap" ELSE "move")
  /\ eerr' = ierr
  /\ eshape' = ishape
  /\ ipc' = "idle"
  /\ ishape' = NilShape
  /\ iscroll' = <<0, 0>>
  /\ ielAt' = ""
  /\ ierr' = NilErr
  /\ ilog' = <<>>
  /\ UNCHANGED <<eop, ebtn>>
  /\ UNCHANGED <<mouseVars, stableVars, waitVars, removeVars, frameVars>>

\* Quads whose centre has whole-numbered coordinates.
QuadD == <<0, 0, 4, 0, 4, 4, 0, 4>>
QuadE == <<-2, 0, 0, 0, 0, 2, -2, 2>>

\* What Interactable can hand to Hover, Click and Tap. They pass
\* shape[0].CenterX() and shape[0].CenterY() on as they are, with no
\* conversion, and MoveE takes int64: the first quads here have a centre
\* that is the same number either way.
PointerShapes ==
  {NilShape, MkShape(<<>>), MkShape(<<QuadA>>), MkShape(<<QuadD>>),
   MkShape(<<QuadE>>), MkShape(<<QuadD, QuadA>>)}

\* The point Hover moves to and Tap taps: the centre of shape[0], the mean of
\* its four corners, exactly.
Center(s) ==
  LET q == s.quads[1]
  IN CHOOSE c \in IntRange \X IntRange :
       /\ 4 * c[1] = q[1] + q[3] + q[5] + q[7]
       /\ 4 * c[2] = q[2] + q[4] + q[6] + q[8]

\* err = el.page.Mouse.Move(shape[0].CenterX(), shape[0].CenterY(), 1)
HoverMove ==
  /\ ec = "move"
  /\ MoveE(ElemProc, Center(eshape)[1], Center(eshape)[2], 1)

\* return el.page.Mouse.Click(button)
ClickClick ==
  /\ ec = "click"
  /\ ClickE(ElemProc, ebtn)

\* return el.page.Touch.Tap(cx, cy)
TapDispatch(ok) ==
  /\ ec = "tap"
  /\ elog' = Append(elog, <<"Tap", ok>>)
  /\ ec' = "done"
  /\ eerr' = IF ok THEN NilErr ELSE CallErr("Tap")
  /\ UNCHANGED <<eop, ebtn, eshape>>
  /\ UNCHANGED <<mouseVars, exceptPipe>>

\* Another goroutine calls Mouse.Move on the same page while the pointer action
\* is at its own Mouse calls. (A Move made earlier only changes the position
\* the cursor is at when Hover's Move begins.)
OtherMove(p, tx, ty, steps) ==
  /\ p # ElemProc
  /\ ec \in {"move", "click"}
  /\ MoveE(p, tx, ty, steps)

\* The pointer action of goroutine ElemProc, while the other goroutines move
\* the mouse of the same page.
NextPointer ==
  \/ Hover
  \/ \E b \in Buttons : Click(b)
  \/ Tap
  \/ \E ok \in BOOLEAN : PointerWaitVisible(ok)
  \/ \E ok \in BOOLEAN : PointerScroll(ok)
  \/ \E ok \in BOOLEAN, s \in PointerShapes : InteractableShape(ok, s)
  \/ \E ok \in BOOLEAN, off \in ScrollOffsets : InteractableScroll(ok, off)
  \/ \E ok \in BOOLEAN, e \in DOM : InteractableHit(ok, e)
  \/ \E ok \in BOOLEAN : InteractableContains(ok)
  \/ PointerInteractable
  \/ HoverMove
  \/ ClickClick
  \/ \E ok \in BOOLEAN : TapDispatch(ok)
  \/ \E p \in Procs \ {ElemProc}, tx \in XCoords, ty \in YCoords, s \in StepArgs :
       OtherMove(p, tx, ty, s)
  \/ \E p \in Procs, ok \in BOOLEAN : MoveStep(p, ok)
  \/ \E p \in Procs : MoveDone(p)
  \/ \E p \in Procs : MoveReturn(p)
  \/ \E ok \in BOOLEAN : DownCall(ElemProc, ok)
  \/ DownReturn(ElemProc)
  \/ UpLock(ElemProc)
  \/ \E ok \in BOOLEAN : UpCall(ElemProc, ok)
  \/ UpReturn(ElemProc)

SpecPointer == Init /\ [][NextPointer]_vars

\* ------------------------------------------------------ Clicks only

\* Every goroutine performs only Click calls, and every dispatch succeeds.
NextClicks ==
  \/ \E p \in Procs, b \in Buttons \cup {""} : ClickE(p, b)
  \/ \E p \in Procs : DownCall(p, TRUE)
  \/ \E p \in Procs : DownReturn(p)
  \/ \E p \in Procs : UpLock(p)
  \/ \E p \in Procs : UpCall(p, TRUE)
  \/ \E p \in Procs : UpReturn(p)

SpecClicks == Init /\ [][NextClicks]_vars

\* ------------------------------------------------------- claims on Mouse

\* Goroutine p is between acquiring and releasing the mutex.
InCritical(p) ==
  pc[p] \in {"move_loop", "move_ret", "down_call", "down_ret", "up_call", "up_ret"}

\* Goroutine p is inside ClickE, its DownE returned nil and its UpE has not
\* dispatched the release yet.
MidClick(p) == fr[p].click /\ pc[p] \in {"up_lock", "up_call"}

Abs(n) == IF n < 0 THEN -n ELSE n

\* C1 as stated: between the press and the release of one caller's Click no
\* other caller's event is dispatched (the cursor and the pressed sequence
\* change only with a dispatched event).
C1_ClickNotInterleaved ==
  \A p \in Procs : MidClick(p) => wire.by \in {0, p}

\* C1 amended: the press and the release of a Click each run under the
\* mutex (no other caller is inside the controller, no other caller's event is
\* dispatched and the state is the one the step read until the step commits),
\* but the mutex is free between them.
C1_ClickStepsAtomic ==
  \A p \in Procs :
    /\ (fr[p].click /\ InCritical(p)) =>
         /\ lock = p
         /\ \A q \in Procs \ {p} : ~InCritical(q)
         /\ wire.by \in {0, p}
         /\ x = fr[p].startX /\ y = fr[p].startY
         /\ buttons = (IF fr[p].err = "nil" THEN fr[p].toButtons
                       ELSE fr[p].startButtons)
    /\ (fr[p].click /\ pc[p] = "up_lock") => lock # p

\* A Click is between its press and its release, and the controller has just
\* accepted a press of another caller that changed the pressed sequence.
C1_Witness ==
  \E p, q \in Procs :
    /\ p # q
    /\ fr[p].click /\ pc[p] = "up_lock"
    /\ pc[q] = "down_ret" /\ fr[q].err = "nil"
    /\ wire.by = q
    /\ buttons = <<fr[p].button, fr[q].button>>

\* C2: at most one caller of Move, Down and Up is between Lock and Unlock; the
\* state a call read is the state it commits over; the steps of one Move follow
\* each other with no other caller's event in between.
C2_MutualExclusion ==
  /\ Cardinality({p \in Procs : InCritical(p)}) <= 1
  /\ \A p \in Procs :
       /\ InCritical(p) <=> lock = p
       /\ InCritical(p) => wire.by \in {0, p}
       /\ pc[p] \in {"move_loop", "move_ret"} =>
            /\ buttons = fr[p].startButtons
            /\ x = fr[p].startX + fr[p].i * fr[p].stepX
            /\ y = fr[p].startY + fr[p].i * fr[p].stepY
            /\ fr[p].sent = fr[p].i
            /\ (fr[p].i > 0 /\ wire # NoEvent) =>
                 (wire.by = p /\ wire.type = "mouseMoved")
       /\ pc[p] \in {"down_call", "up_call"} =>
            /\ buttons = fr[p].startButtons
            /\ x = fr[p].startX /\ y = fr[p].startY
       /\ pc[p] \in {"down_ret", "up_ret"} =>
            /\ buttons = (IF fr[p].err = "nil" THEN fr[p].toButtons
                          ELSE fr[p].startButtons)
            /\ x = fr[p].startX /\ y = fr[p].startY

\* A two-step Move has dispatched its first step while another caller waits
\* inside a Click for the mutex.
C2_Witness ==
  \E p, q \in Procs :
    /\ p # q
    /\ pc[p] = "move_loop" /\ fr[p].steps = 2 /\ fr[p].i = 1
    /\ wire.by = p
    /\ pc[q] = "up_lock"

\* C3 as stated: a MoveE whose dispatches all succeed dispatches exactly n
\* events (n = steps, or 1 when steps < 1) and ends at start + n * trunc((target
\* - start) / n): on target when n = 1 or n divides the delta, less than n away
\* from it otherwise.
C3_MoveLands ==
  \A p \in Procs :
    (pc[p] = "move_ret" /\ fr[p].err = "nil") =>
      LET f  == fr[p]
          n  == IF f.rawSteps >= 1 THEN f.rawSteps ELSE 1
          dx == f.tx - f.startX
          dy == f.ty - f.startY
          qx == IF dx >= 0 THEN dx \div n ELSE -((-dx) \div n)
          qy == IF dy >= 0 THEN dy \div n ELSE -((-dy) \div n)
      IN /\ f.sent = n
         /\ x = f.startX + n * qx
         /\ y = f.startY + n * qy
         /\ n = 1 => (x = f.tx /\ y = f.ty)
         /\ dx % n = 0 => x = f.tx
         /\ dy % n = 0 => y = f.ty
         /\ Abs(f.tx - x) < n /\ Abs(f.ty - y) < n

\* C3 amended: exactly n events; the stride is the truncated quotient of the
\* wrapped difference target - start by n and the cursor ends n strides from
\* the start; with n = 1 it is on target; and, provided the difference target -
\* start does not overflow, it is on target when n divides the difference and
\* less than n away from it otherwise.
C3_MoveLandsNoOverflow ==
  \A p \in Procs :
    (pc[p] = "move_ret" /\ fr[p].err = "nil") =>
      LET f  == fr[p]
          n  == IF f.rawSteps >= 1 THEN f.rawSteps ELSE 1
          dx == f.tx - f.startX
          dy == f.ty - f.startY
          wx == ((dx - MinInt) % Modulus) + MinInt
          wy == ((dy - MinInt) % Modulus) + MinInt
          qx == IF wx >= 0 THEN wx \div n ELSE -((-wx) \div n)
          qy == IF wy >= 0 THEN wy \div n ELSE -((-wy) \div n)
      IN /\ f.sent = n
         /\ f.stepX = qx /\ f.stepY = qy
         /\ (x - (f.startX + n * qx)) % Modulus = 0
         /\ (y - (f.startY + n * qy)) % Modulus = 0
         /\ n = 1 => (x = f.tx /\ y = f.ty)
         /\ dx \in IntRange =>
              /\ x = f.startX + n * qx
              /\ dx % n = 0 => x = f.tx
              /\ Abs(f.tx - x) < n
         /\ dy \in IntRange =>
              /\ y = f.startY + n * qy
              /\ dy % n = 0 => y = f.ty
              /\ Abs(f.ty - y) < n

\* A two-step Move to the left over a distance 2 does not divide returns nil
\* one unit off its target.
C3_Witness ==
  \E p \in Procs :
    /\ pc[p] = "move_ret" /\ fr[p].err = "nil"
    /\ fr[p].steps = 2 /\ fr[p].sent = 2
    /\ fr[p].tx < fr[p].startX
    /\ fr[p].tx - fr[p].startX \in IntRange
    /\ x = fr[p].tx + 1

\* C4: the cursor is the position of the last accepted move event (or the
\* initial position) and the pressed sequence the one the last accepted press
\* or release event encoded (or empty); a failed Move leaves the cursor at the
\* last accepted step, dispatches nothing more and returns the error; a failed
\* Down or Up changes nothing and returns the error.
C4_CommitAfterDispatch ==
  /\ lastMove = <<>> => (x = 0 /\ y = 0)
  /\ lastMove # <<>> => <<x, y>> = lastMove
  /\ buttons = lastBtn
  /\ \A p \in Procs :
       /\ (pc[p] = "move_ret" /\ fr[p].err = "err") =>
            /\ wire = NoEvent
            /\ fr[p].sent = fr[p].i /\ fr[p].i < fr[p].steps
            /\ x = fr[p].startX + fr[p].i * fr[p].stepX
            /\ y = fr[p].startY + fr[p].i * fr[p].stepY
            /\ buttons = fr[p].startButtons
       /\ (pc[p] \in {"down_ret", "up_ret"} /\ fr[p].err = "err") =>
            /\ wire = NoEvent
            /\ fr[p].sent = 0
            /\ x = fr[p].startX /\ y = fr[p].startY
            /\ buttons = fr[p].startButtons
       /\ pc[p] \in {"move_ret", "down_ret", "up_ret"} => fr[p].err \in {"nil", "err"}
  /\ ret.val = "err" => (wire = NoEvent /\ pc[ret.by] = "idle")

\* A two-step Move failed at its second step and left the cursor at the first.
C4_Witness ==
  \E p \in Procs :
    /\ pc[p] = "move_ret" /\ fr[p].err = "err"
    /\ fr[p].i = 1
    /\ x # fr[p].startX
    /\ x # fr[p].tx

\* C5: a successful Down appends its button at the end of the pressed sequence,
\* already pressed or not, and its press event carries the encoding of the
\* resulting sequence.
C5_DownAppends ==
  \A p \in Procs :
    (pc[p] = "down_ret" /\ fr[p].err = "nil") =>
      LET before == fr[p].startButtons
          bit(b) == IF \E k \in 1..Len(buttons) : buttons[k] = b
                    THEN (IF b = "left" THEN 1 ELSE 2) ELSE 0
      IN /\ Len(buttons) = Len(before) + 1
         /\ SubSeq(buttons, 1, Len(before)) = before
         /\ buttons[Len(buttons)] = fr[p].button
         /\ wire.type = "mousePressed"
         /\ wire.button = fr[p].button
         /\ wire.buttons = bit("left") + bit("right")
         /\ wire.clickCount = fr[p].clicks
         /\ wire.x = x /\ wire.y = y

\* Down("left") succeeded on a sequence that held "left" already.
C5_Witness ==
  \E p \in Procs :
    /\ pc[p] = "down_ret" /\ fr[p].err = "nil"
    /\ fr[p].button = "left"
    /\ buttons = <<"left", "left">>

\* C6: a successful Up removes every occurrence of its button and keeps the
\* other buttons in order.
C6_UpRemovesAll ==
  \A p \in Procs :
    (pc[p] = "up_ret" /\ fr[p].err = "nil") =>
      LET before == fr[p].startButtons
          b      == fr[p].button
          keep(e) == e # b
      IN /\ \A k \in 1..Len(buttons) : buttons[k] # b
         /\ buttons = SelectSeq(before, keep)
         /\ (before = <<"left">> /\ b = "left") => buttons = <<>>
         /\ (before = <<"left", "right">> /\ b = "left") => buttons = <<"right">>
         /\ (before = <<"left", "left">> /\ b = "left") => buttons = <<>>
         /\ wire.type = "mouseReleased" /\ wire.button = b

\* Up("left") succeeded on the sequence left, left.
C6_Witness ==
  \E p \in Procs :
    /\ pc[p] = "up_ret" /\ fr[p].err = "nil"
    /\ fr[p].startButtons = <<"left", "left">>
    /\ fr[p].button = "left"
    /\ buttons = <<>>

\* A button leaves the pressed sequence only with an accepted release of it.
OnlyUpRemoves ==
  \A b \in Buttons :
    (HasButton(buttons, b) /\ ~HasButton(buttons', b)) =>
      (wire'.type = "mouseReleased" /\ wire'.button = b)

\* C7: Click is Down then Up with click count 1 on the given button, left when
\* empty; a failed Down ends the Click with no release and no change; after a
\* successful Down a failed Up ends the Click with the error and undoes
\* nothing: the button stays pressed until an accepted release of it.
C7_ClickNoRollback ==
  /\ [](\A p \in Procs :
         fr[p].click =>
           /\ fr[p].clicks = 1
           /\ fr[p].op = "Down" =>
                fr[p].button = (IF fr[p].arg = "" THEN "left" ELSE fr[p].arg)
           /\ fr[p].op \in {"Down", "Up"}
           /\ (pc[p] = "down_ret" /\ fr[p].err = "err") =>
                (wire = NoEvent /\ buttons = fr[p].startButtons)
           /\ (pc[p] = "down_ret" /\ fr[p].err = "nil") =>
                (wire.type = "mousePressed" /\ wire.clickCount = 1
                 /\ wire.button = fr[p].button /\ HasButton(buttons, fr[p].button))
           /\ (pc[p] = "up_ret" /\ fr[p].err = "nil") =>
                (wire.type = "mouseReleased" /\ wire.clickCount = 1
                 /\ wire.button = fr[p].button)
           /\ (pc[p] = "up_ret" /\ fr[p].err = "err") =>
                (wire = NoEvent /\ buttons = fr[p].startButtons))
  /\ []((ret.click /\ ret.op = "Down" /\ ret.val = "err") => pc[ret.by] = "idle")
  /\ []((ret.click /\ ret.op = "Down" /\ ret.val = "nil") =>
          (pc[ret.by] = "up_lock" /\ HasButton(buttons, fr[ret.by].button)))
  /\ []((ret.click /\ ret.op = "Up") => pc[ret.by] = "idle")
  /\ [][OnlyUpRemoves]_vars

\* The release of a Click of the left button failed and left is still pressed.
C7_Witness ==
  \E p \in Procs :
    /\ fr[p].click /\ pc[p] = "up_ret" /\ fr[p].err = "err"
    /\ fr[p].button = "left"
    /\ buttons = <<"left">>

\* ----------------------------------------------------- claims on Element

\* The calls Interactable can issue, in the order of its code.
InteractableCalls == <<"Shape", "Eval", "ElementFromPoint", "ContainsElement">>

\* The shape fetch answered with no quads.
EmptyShapeFetched == Len(ilog) >= 1 /\ ilog[1].ok /\ Len(ilog[1].res) = 0

\* C8: when the shape fetch of Interactable answers with an empty shape, the
\* call ends with a NotInteractable error and the shape fetch is the only call
\* it has issued: no scroll read, no hit-test, no containment check.
C8_EmptyShapeStops ==
  EmptyShapeFetched =>
    /\ ipc = "done"
    /\ ierr.kind = "NotInteractable"
    /\ Len(ilog) = 1
    /\ \A i \in 1..Len(ilog) :
         ilog[i].call \notin {"Eval", "ElementFromPoint", "ContainsElement"}

C8_Witness ==
  /\ ipc = "done"
  /\ ishape = MkShape(<<>>)
  /\ ilog = <<ICall("Shape", <<>>, TRUE, <<>>)>>
  /\ ierr.kind = "NotInteractable"

\* Every call so far succeeded.
AllOk == \A i \in 1..Len(ilog) : ilog[i].ok

\* C9: with a non-empty shape, Interactable hit-tests the (integer) center of
\* the first quad plus the scroll offset; it returns the fetched shape and no
\* error exactly when the element found there is the target or a descendant,
\* and a NotInteractable error naming the element found otherwise. A failed
\* call ends Interactable with that call's error and no later call.
C9_InteractableHitTest ==
  /\ \A i \in 1..Len(ilog) : ilog[i].call = InteractableCalls[i]
  /\ \A i \in 1..Len(ilog) :
       ~ilog[i].ok => ipc = "done" /\ Len(ilog) = i /\ ierr = CallErr(InteractableCalls[i])
  /\ Len(ilog) >= 3 =>
       LET q == ilog[1].res[1]
       IN ilog[3].arg = <<TruncDiv(q[1] + q[3] + q[5] + q[7], 4) + iscroll[1],
                          TruncDiv(q[2] + q[4] + q[6] + q[8], 4) + iscroll[2]>>
  /\ (Len(ilog) >= 3 /\ ilog[2].ok) => iscroll = ilog[2].res
  /\ (Len(ilog) = 4) => ilog[4].arg = ilog[3].res
  /\ (ipc = "done" /\ ~EmptyShapeFetched) =>
       /\ ierr = NilErr <=>
            (Len(ilog) = 4 /\ AllOk /\ ilog[3].res[1] \in {"el", "child"})
       /\ ierr = NilErr => ishape = MkShape(ilog[1].res) /\ Len(ishape.quads) > 0
       /\ (Len(ilog) = 4 /\ AllOk /\ ilog[3].res[1] \notin {"el", "child"}) =>
            ierr.kind = "NotInteractable" /\ ierr.el = ilog[3].res[1]

C9_Witness ==
  /\ ipc = "done"
  /\ ishape = MkShape(<<QuadB, QuadA>>)
  /\ iscroll = <<1, 1>>
  /\ Len(ilog) = 4
  /\ ilog[3].arg = <<3, 3>>
  /\ ilog[3].res = <<"cover">>
  /\ ierr.kind = "NotInteractable"
  /\ ierr.el = "cover"

WaitStableSucceeded == wpc = "done" /\ wret = NilErr

\* Success comes with the sample just fetched equal to the one before it, each
\* sample after the first taken on a tick, and never while the last two
\* samples differ.
StableSuccess ==
  /\ WaitStableSucceeded =>
       /\ nSamples >= 2
       /\ eqSeen
       /\ wcur = wshape
       /\ nTicks = nSamples - 1
  /\ ~eqSeen => ~WaitStableSucceeded

\* A failed visibility wait or shape fetch ends WaitStable with that error.
ErrorsImmediate ==
  /\ failed # "" => wpc = "done" /\ wret = CallErr(failed)
  /\ (wpc = "done" /\ wret.kind = "call") => wret = CallErr(failed)
  /\ failed = "WaitVisible" => nSamples = 0 /\ nTicks = 0
  /\ failed = "Shape" => nTicks = nSamples - 1

\* C10 as stated: success only on two equal consecutive samples a tick apart,
\* errors returned at once, and a scope canceled while WaitStable waits for
\* the next tick, no two consecutive samples having been equal, never ends in
\* success.
C10_CancelAlwaysWins ==
  /\ StableSuccess
  /\ ErrorsImmediate
  /\ (wpc = "done" /\ early) => wret # NilErr

\* A wait of WaitStable that ends while the scope is canceled and no tick is
\* pending ends with the cancellation error.
CancelAtSelect ==
  (wpc = "select" /\ canceled /\ ~tick /\ wpc' # wpc) =>
    (wpc' = "done" /\ wret' = CtxErr)

\* C10: WaitStable returns success only when the sample just taken equals the
\* previous one, every sample after the first following a tick, and never
\* while samples differ; a failed visibility wait or shape fetch is returned
\* at once; the cancellation error is returned only for a canceled scope, and
\* it is what a wait returns when the scope is canceled and no tick is pending.
C10_WaitStableCooperative ==
  /\ [](StableSuccess /\ ErrorsImmediate)
  /\ []((wpc = "done" /\ wret = CtxErr) => canceled)
  /\ [][CancelAtSelect]_vars

C10_Witness ==
  /\ WaitStableSucceeded
  /\ nSamples = 3
  /\ wshape = MkShape(<<QuadB, QuadA>>)
  /\ canceled
  /\ early

\* ----------------------------------------------------------- claims on Wait

\* The answers that count as true.
TrueAnswers == {JSONTrue, JSONValue("Number", 1, ""), JSONValue("String", 0, "true")}

WaitReturned(e) == tpc = "done" /\ tret = e

\* An evaluation failed: the count went up and no answer was recorded.
EvalFailed == nEvals >= 1 /\ lastEval = NoValue

\* A sleep that ends on a canceled scope ends Wait with the scope's error.
CancelAtTick ==
  (tpc = "sleep" /\ canceled /\ tpc' # tpc) => (tpc' = "done" /\ tret' = CtxErr)

\* An evaluation is not cut short: it ends Wait with its own outcome only.
NoPreemption ==
  (tpc = "eval" /\ tpc' = "done") => tret' \in {NilErr, CallErr("Eval")}

\* C11: Wait returns success only when the most recent evaluation answered
\* true, and returns as soon as one does; a failed evaluation ends it with
\* that error and no later evaluation; the cancellation error is returned for
\* a canceled scope, looked at between two evaluations and never during one;
\* and a Wait whose scope is canceled eventually returns.
C11_WaitOutcomes ==
  /\ [](WaitReturned(NilErr) => lastEval \in TrueAnswers)
  /\ [](lastEval \in TrueAnswers => WaitReturned(NilErr))
  /\ [](EvalFailed <=> WaitReturned(CallErr("Eval")))
  /\ [](WaitReturned(CtxErr) => canceled /\ nEvals >= 1 /\ lastEval \notin TrueAnswers)
  /\ [][CancelAtTick]_vars
  /\ [][NoPreemption]_vars
  /\ (tpc \in {"eval", "sleep"} /\ canceled) ~> (tpc = "done")

C11_Witness ==
  /\ WaitReturned(NilErr)
  /\ tjs = "visible"
  /\ nEvals = MaxEvals
  /\ canceled

\* --------------------------------------------------------- claims on Remove

\* C12: once a Remove has returned success the node is detached and the
\* reference released, and every later operation on the handle fails; a
\* Remove whose evaluation failed returns that error having issued no
\* release.
C12_RemoveThenStale ==
  /\ removedOk => released /\ ~attached
  /\ lastOp.afterRemove => ~lastOp.ok
  /\ (rpc = "done" /\ rret = NilErr) => rlog = <<"Eval", "Release">> /\ removedOk
  /\ (rpc = "done" /\ Len(rlog) = 1) =>
       /\ rret = CallErr("Eval")
       /\ rlog = <<"Eval">>

C12_Witness ==
  /\ removedOk
  /\ rpc = "done"
  /\ rret = CallErr("Eval")
  /\ rlog = <<"Eval">>
  /\ lastOp = HandleOp("Shape", FALSE, TRUE)

\* ----------------------------------------------- claims on ensureParentPage

\* The iframes under the given list in depth-first pre-order: each iframe,
\* then the iframes of its page, then its later siblings.
RECURSIVE PreOrderOf(_, _)
PreOrderOf(tree, list) ==
  IF list = <<>> THEN <<>>
  ELSE <<Head(list)>> \o PreOrderOf(tree, tree[Head(list)]) \o PreOrderOf(tree, Tail(list))

PreOrder == PreOrderOf(ftree, ftree[0])

\* The pages or iframes the calls named c went to, in the order of the calls.
CallsTo(c) ==
  LET sel == SelectSeq(flog, LAMBDA r : r[1] = c)
  IN [i \in 1..Len(sel) |-> sel[i][2]]

Resolved == CallsTo("resolveNode")
Derived == CallsTo("Frame")
Queried == CallsTo("Elements")

\* No call has failed.
AllAnswered == \A i \in 1..Len(flog) : flog[i][3] \notin {"err", "eof"}

\* ensureParentPage has returned from a search in which no call failed.
SearchDone ==
  fpc = "done" /\ Len(flog) >= 1 /\ flog[1][3] = "no" /\ AllAnswered

\* The iframe f and every iframe nested in it.
Under(f) == {PreOrderOf(ftree, <<f>>)[i] : i \in 1..Len(PreOrderOf(ftree, <<f>>))}

\* Trees three levels deep, and their deepest iframe.
ThreeLevelTrees == {Chain, ChainAndSibling, SiblingAndChain}
Deepest == IF ftree = SiblingAndChain THEN 4 ELSE 3

\* An iframe is visited after the iframe that holds it.
AncestorsFirst ==
  \A i \in 1..Len(Resolved) :
    \A n \in Frames :
      (\E k \in 1..Len(ftree[n]) : ftree[n][k] = Resolved[i]) =>
        \E j \in 1..(i - 1) : Resolved[j] = n

\* An iframe is visited before everything nested in its later siblings.
EarlierSiblingsFirst ==
  \A n \in Pages :
    \A a \in 1..Len(ftree[n]) :
      \A b \in (a + 1)..Len(ftree[n]) :
        \A i \in 1..Len(Resolved) :
          Resolved[i] \in Under(ftree[n][b]) =>
            \E j \in 1..(i - 1) : Resolved[j] = ftree[n][a]

\* Every iframe of a page is visited before any iframe nested in one of them.
SiblingsBeforeNested ==
  \A n \in Pages :
    \A a, b \in 1..Len(ftree[n]) :
      \A i \in 1..Len(Resolved) :
        (a # b /\ \E k \in 1..Len(ftree[ftree[n][b]]) : ftree[ftree[n][b]][k] = Resolved[i]) =>
          \E j \in 1..(i - 1) : Resolved[j] = ftree[n][a]

\* C13 as stated: in an iframe tree three levels deep with the node in the
\* deepest iframe the handle is rebound to that iframe, an iframe being
\* visited after the one that holds it and the siblings of an iframe before
\* the iframes nested in it.
C13_SiblingsThenNested ==
  (ftree \in ThreeLevelTrees /\ fres = {Deepest}) =>
    /\ AncestorsFirst
    /\ SiblingsBeforeNested
    /\ SearchDone => fret = NilErr /\ fpage = Deepest /\ fobj = ObjIn(Deepest)

\* C13: in an iframe tree three levels deep with the node in the deepest
\* iframe, ensureParentPage rebinds the handle to that iframe, and it visits
\* the iframes depth first in document order: an iframe after the one that
\* holds it, after its earlier siblings and everything nested in them, and
\* no iframe twice.
C13_RelocatesIntoDeepest ==
  (ftree \in ThreeLevelTrees /\ fres = {Deepest}) =>
    /\ AncestorsFirst
    /\ EarlierSiblingsFirst
    /\ \A i, j \in 1..Len(Resolved) : Resolved[i] = Resolved[j] => i = j
    /\ SearchDone =>
         /\ fret = NilErr
         /\ fpage = Deepest
         /\ fobj = ObjIn(Deepest)

C13_Witness ==
  /\ SearchDone
  /\ ftree = SiblingAndChain
  /\ fres = {4}
  /\ fpage = 4
  /\ Resolved = <<1, 2, 3, 4>>

\* The search got past the cheap check and no call has failed.
Searching == Len(flog) >= 1 /\ flog[1][3] = "no" /\ AllAnswered

\* seq is the beginning of full.
IsPrefix(seq, full) ==
  Len(seq) <= Len(full) /\ \A i \in 1..Len(seq) : seq[i] = full[i]

\* C14: the search resolves nodeID in the iframes in depth-first pre-order,
\* going past an iframe only when nodeID did not resolve in it and into its
\* own iframes before its next sibling; at the first iframe in which nodeID
\* resolves the handle's page and reference are rebound to it, success is
\* returned, and that resolution is the last call made.
C14_FirstMatchWins ==
  Searching =>
    /\ IsPrefix(Resolved, PreOrder)
    /\ IsPrefix(Derived, PreOrder)
    /\ Len(Derived) \in {Len(Resolved), Len(Resolved) + 1}
    /\ \A i \in 1..(Len(Resolved) - 1) : Resolved[i] \notin fres
    /\ \A i \in 1..Len(Queried) :
         Queried[i] = 0 \/ \E j \in 1..Len(Resolved) : Resolved[j] = Queried[i]
    /\ (Len(Resolved) >= 1 /\ Resolved[Len(Resolved)] \in fres) =>
         /\ fpc = "done"
         /\ fret = NilErr
         /\ fpage = Resolved[Len(Resolved)]
         /\ fobj = ObjIn(fpage)
         /\ flog[Len(flog)] = <<"resolveNode", fpage, "hit">>
    /\ (fpc = "done" /\ \E i \in 1..Len(PreOrder) : PreOrder[i] \in fres) =>
         /\ fpage \in fres
         /\ \A i \in 1..Len(PreOrder) :
              PreOrder[i] \in fres => \E j \in 1..i : PreOrder[j] = fpage

C14_Witness ==
  /\ SearchDone
  /\ ftree = TwoBranches
  /\ fres = {2, 4}
  /\ fpage = 2
  /\ Resolved = <<1, 2>>
  /\ Queried = <<0, 1>>

\* C15 as stated: a failed call, whatever its error, ends ensureParentPage
\* with that error, is the last call made, and leaves the handle's page and
\* reference as they were.
C15_ErrorsSurface ==
  \A i \in 1..Len(flog) :
    flog[i][3] \in {"err", "eof"} =>
      /\ i = Len(flog)
      /\ fpc = "done"
      /\ fret = OutcomeErr(flog[i][3], flog[i][1])
      /\ fpage = 0
      /\ fobj = ObjIn(0)

\* C16: a search in which no call fails and nodeID resolves nowhere returns
\* success with the handle's page and reference as they were, having derived
\* and resolved every iframe of the tree once and queried every page once.
C16_ExhaustedIsSuccess ==
  (SearchDone /\ \A i \in 1..Len(flog) : flog[i][3] # "hit") =>
    /\ fret = NilErr
    /\ fpage = 0
    /\ fobj = ObjIn(0)
    /\ Resolved = PreOrder
    /\ Derived = PreOrder
    /\ Len(Queried) = Len(PreOrder) + 1
    /\ \A i, j \in 1..Len(Queried) : Queried[i] = Queried[j] => i = j
    /\ \A i \in 1..Len(PreOrder) : \E j \in 1..Len(Queried) : Queried[j] = PreOrder[i]

C16_Witness ==
  /\ SearchDone
  /\ ftree = TwoBranches
  /\ fres = {}
  /\ fret = NilErr
  /\ Resolved = <<1, 2, 3, 4>>
  /\ Queried = <<0, 1, 2, 3, 4>>

\* C17: when the handle's page has the object, ensureParentPage returns
\* success having made no other call, and the handle's page and reference are
\* as they were.
C17_HasIsNoOp ==
  (Len(flog) >= 1 /\ flog[1][3] = "yes") =>
    /\ fpc = "done"
    /\ fret = NilErr
    /\ flog = <<<<"hasElement", 0, "yes">>>>
    /\ fpage = 0
    /\ fobj = ObjIn(0)

C17_Witness ==
  /\ fpc = "done"
  /\ flog = <<<<"hasElement", 0, "yes">>>>
  /\ ftree = Chain
  /\ fres = {1}
  /\ fpage = 0

\* --------------------------------------------- claims on Hover, Click, Tap

\* The stages of each pointer action, in the order the code runs them.
Pipeline(op) ==
  <<"WaitVisible", "ScrollIntoView", "Interactable">> \o
    (IF op = "Tap" THEN <<"Tap">>
     ELSE IF op = "Click" THEN <<"Move", "Click">>
     ELSE <<"Move">>)

StagesRun == [i \in 1..Len(elog) |-> elog[i][1]]

\* The visibility wait, the scroll and the interactability check of this
\* action have each succeeded.
GatesPassed ==
  /\ Len(elog) >= 3
  /\ \A i \in 1..3 : elog[i] = <<Pipeline(eop)[i], TRUE>>

\* The action has a pointer event out, or a Mouse call under way, or has
\* issued its tap.
Dispatching ==
  \/ wire.by = ElemProc /\ wire.type # "none"
  \/ pc[ElemProc] # "idle"
  \/ \E i \in 1..Len(elog) : elog[i][1] \in {"Move", "Click", "Tap"}

\* C18: Hover, Click and Tap run wait-visible, scroll-into-view, the
\* interactability check and the dispatch in that order; nothing is dispatched
\* (no move, press, release or tap) unless the three earlier stages of the same
\* action succeeded; and a stage that fails is the last one run, its error
\* being what the action returns.
C18_PipelineFailFast ==
  /\ ec # "idle" => IsPrefix(StagesRun, Pipeline(eop))
  /\ Dispatching => GatesPassed
  /\ \A i \in 1..Len(elog) :
       ~elog[i][2] => /\ i = Len(elog)
                      /\ ec = "done"
                      /\ eerr # NilErr
  /\ (ec = "done" /\ eerr = NilErr) =>
       /\ StagesRun = Pipeline(eop)
       /\ \A i \in 1..Len(elog) : elog[i][2]

\* Click has its release out after all five stages ran.
C18_Witness ==
  /\ eop = "Click"
  /\ wire.by = ElemProc
  /\ wire.type = "mouseReleased"
  /\ GatesPassed
  /\ StagesRun = <<"WaitVisible", "ScrollIntoView", "Interactable", "Move">>

\* Every Click that was called has returned.
AllReturned == \A p \in Procs : pc[p] = "idle"

\* C19: when the goroutines perform only Clicks and every dispatch succeeds,
\* the pressed sequence is empty once every Click has returned, however the
\* presses and releases of the Clicks interleaved.
C19_ClicksLeaveNothingPressed == AllReturned => buttons = <<>>

\* Every Click has returned, the last of them with success, and all the calls
\* the bound allows were made.
C19_Witness ==
  /\ AllReturned
  /\ calls = MaxCalls
  /\ ret.click /\ ret.op = "Up" /\ ret.val = "nil"

\* A press or release that Element.Click dispatched with success is on the wire.
ClickEventOut ==
  /\ eop = "Click"
  /\ ec = "click"
  /\ wire.by = ElemProc
  /\ wire.type \in {"mousePressed", "mouseReleased"}

\* Mouse.Click is about to return nil to Element.Click, its release on the wire.
ClickSucceeds ==
  /\ ClickEventOut
  /\ wire.type = "mouseReleased"
  /\ pc[ElemProc] = "up_ret"
  /\ fr[ElemProc].err = "nil"

\* Only the pointer action has called the Mouse: its Move and its Click.
NoOtherCaller == calls = 2

\* C20 as stated: when Element.Click returns success, the release it
\* dispatched carries the centre of the element's first quad, whatever the
\* other callers of the page's Mouse did meanwhile.
C20_ClickAtCenter == ClickSucceeds => <<wire.x, wire.y>> = Center(eshape)

\* C20: the press and the release of Element.Click carry the position the
\* cursor has when each is dispatched; that is the centre of the element's
\* first quad when no other caller of the Mouse moved it after Hover's Move,
\* and Hover's Move and the Click's press and release each take the lock on
\* their own.
C20_ClickAtCursor ==
  ClickEventOut =>
    /\ <<wire.x, wire.y>> = <<x, y>>
    /\ lock = ElemProc
    /\ NoOtherCaller => <<wire.x, wire.y>> = Center(eshape)

\* Element.Click, alone on the Mouse, has its release out at a centre that
\* is not where the cursor began.
C20_Witness ==
  /\ ClickSucceeds
  /\ NoOtherCaller
  /\ <<wire.x, wire.y>> = Center(eshape)
  /\ Center(eshape) # <<0, 0>>

====
